---- MODULE Spec2Model ----
(***************************************************************************)
(* Model of function_app.py: the HTTP handler weather_chat, the mocked     *)
(* tool get_weather and the LLM-as-a-judge evaluation (evaluate_response,  *)
(* evaluate_with_llm, log_evaluation).                                     *)
(*                                                                         *)
(* Conventions.  A Python value that may be None is a sequence of length   *)
(* at most one: <<>> is None and <<v>> is v.  Python floats are counted in *)
(* hundredths and carry a NaN flag: [nan |-> FALSE, v |-> 70] is 0.7.      *)
(* Texts are TLA+ strings.  A dict with optional keys is a record whose    *)
(* absent string keys hold "" and whose absent lists hold <<>>.            *)
(***************************************************************************)
EXTENDS Integers, Sequences, FiniteSets, TLC

VARIABLES pc, req, response_id, user_message, client, deployment_name,
          messages, response_message, tool_calls, tool_idx, weather_context,
          final_message, eval_idx, eval_results, chat_log, in_flight,
          weather_calls, call_results, http

vars == <<pc, req, response_id, user_message, client, deployment_name,
          messages, response_message, tool_calls, tool_idx, weather_context,
          final_message, eval_idx, eval_results, chat_log, in_flight,
          weather_calls, call_results, http>>

(***************************************************************************)
(* Bounds of the model.                                                    *)
(***************************************************************************)
\* Longest list of tool-call requests the first chat reply carries.
MaxToolCalls == 2

(***************************************************************************)
(* Python values.                                                          *)
(***************************************************************************)
None == <<>>

Some(v) == <<v>>

\* Truthiness of an Optional[str]: None and "" are falsy.
Truthy(o) == o # None /\ o[1] # ""

\* `o or ""` for an Optional[str].
OrEmpty(o) == IF Truthy(o) THEN o[1] ELSE ""

Float(h) == [nan |-> FALSE, v |-> h]

NaN == [nan |-> TRUE, v |-> 0]

\* Python's a < b on floats: every comparison with NaN is false.
FloatLt(a, b) == ~a.nan /\ ~b.nan /\ a.v < b.v

\* Python's min(a, b): b replaces a only when b < a.
PyMin(a, b) == IF FloatLt(b, a) THEN b ELSE a

\* Python's max(a, b): b replaces a only when b > a.
PyMax(a, b) == IF FloatLt(a, b) THEN b ELSE a

(***************************************************************************)
(* JSON.  json.loads is modelled on the finite set of texts the chat       *)
(* endpoint is allowed to send in this model; every other text is invalid. *)
(***************************************************************************)
JStr(s) == [t |-> "str", s |-> s, n |-> 0]

JNum(h) == [t |-> "num", s |-> "", n |-> h]

JNull == [t |-> "null", s |-> "", n |-> 0]

JNaN == [t |-> "nan", s |-> "", n |-> 0]

JObject(m) == [kind |-> "object", members |-> m]

JArray == [kind |-> "array", members |-> [none |-> JNull]]

JInvalid == [kind |-> "invalid", members |-> [none |-> JNull]]

ArgsParisF == "{\"location\": \"Paris\", \"unit\": \"fahrenheit\"}"

ArgsDubai == "{\"location\": \"Dubai\"}"

ArgsNoLocation == "{\"unit\": \"celsius\"}"

ArgsTruncated == "{\"location\": "

ArgsTimezone == "{\"timezone\": \"UTC\"}"

ArgsEmpty == ""

JudgeGood == "{\"score\": 0.7, \"reasoning\": \"addresses the query\"}"

JudgeAbove == "{\"score\": 1.5, \"reasoning\": \"excellent\"}"

JudgeBelow == "{\"score\": -0.3, \"reasoning\": \"poor\"}"

JudgeNoScore == "{\"reasoning\": \"no score given\"}"

JudgeNoReasoning == "{\"score\": 0.9}"

JudgeStringScore == "{\"score\": \"0.25\", \"reasoning\": \"quoted\"}"

JudgeWordScore == "{\"score\": \"high\", \"reasoning\": \"worded\"}"

JudgeNullScore == "{\"score\": null, \"reasoning\": \"none\"}"

JudgeNaNScore == "{\"score\": NaN, \"reasoning\": \"not a number\"}"

JudgeArray == "[0.7]"

JudgeProse == "I would rate this 0.8"

JsonLoads(s) ==
    CASE s = ArgsParisF -> JObject([location |-> JStr("Paris"), unit |-> JStr("fahrenheit")])
      [] s = ArgsDubai -> JObject([location |-> JStr("Dubai")])
      [] s = ArgsNoLocation -> JObject([unit |-> JStr("celsius")])
      [] s = ArgsTimezone -> JObject([timezone |-> JStr("UTC")])
      [] s = JudgeGood -> JObject([score |-> JNum(70), reasoning |-> JStr("addresses the query")])
      [] s = JudgeAbove -> JObject([score |-> JNum(150), reasoning |-> JStr("excellent")])
      [] s = JudgeBelow -> JObject([score |-> JNum(-30), reasoning |-> JStr("poor")])
      [] s = JudgeNoScore -> JObject([reasoning |-> JStr("no score given")])
      [] s = JudgeNoReasoning -> JObject([score |-> JNum(90)])
      [] s = JudgeStringScore -> JObject([score |-> JStr("0.25"), reasoning |-> JStr("quoted")])
      [] s = JudgeWordScore -> JObject([score |-> JStr("high"), reasoning |-> JStr("worded")])
      [] s = JudgeNullScore -> JObject([score |-> JNull, reasoning |-> JStr("none")])
      [] s = JudgeNaNScore -> JObject([score |-> JNaN, reasoning |-> JStr("not a number")])
      [] s = JudgeArray -> JArray
      [] OTHER -> JInvalid

JsonErrorMessage == "Expecting value: line 1 column 1 (char 0)"

\* dict.get(key, default)
DictGet(o, key, default) ==
    IF key \in DOMAIN o.members THEN o.members[key] ELSE default

\* float(x): [ok, value, error]
PyFloat(j) ==
    CASE j.t = "num" -> [ok |-> TRUE, value |-> Float(j.n), error |-> ""]
      [] j.t = "nan" -> [ok |-> TRUE, value |-> NaN, error |-> ""]
      [] j.t = "str" /\ j.s = "0.25" -> [ok |-> TRUE, value |-> Float(25), error |-> ""]
      [] j.t = "str" /\ j.s # "0.25" ->
            [ok |-> FALSE, value |-> NaN,
             error |-> "could not convert string to float: '" \o j.s \o "'"]
      [] OTHER ->
            [ok |-> FALSE, value |-> NaN,
             error |-> "float() argument must be a string or a number, not 'NoneType'"]

(***************************************************************************)
(* get_weather and the encoding of its record.                             *)
(***************************************************************************)
\* get_weather with the two temperatures exchanged.
get_weather_swapped(location, unit) ==
    [location |-> location,
     temperature |-> IF unit = "celsius" THEN 72 ELSE 22,
     unit |-> unit,
     condition |-> "Sunny",
     humidity |-> 65,
     wind_speed |-> 10]

get_weather(location, unit) ==
    [location |-> location,
     temperature |-> IF unit = "celsius" THEN 22 ELSE 72,
     unit |-> unit,
     condition |-> "Sunny",
     humidity |-> 65,
     wind_speed |-> 10]

\* json.dumps of a weather record: keys in insertion order.
JsonDumpsWeather(w) ==
    "{\"location\": \"" \o w.location \o "\", \"temperature\": " \o ToString(w.temperature)
      \o ", \"unit\": \"" \o w.unit \o "\", \"condition\": \"" \o w.condition
      \o "\", \"humidity\": " \o ToString(w.humidity)
      \o ", \"wind_speed\": " \o ToString(w.wind_speed) \o "}"

\* get_weather(**function_args): the keyword binding of the parsed arguments.
\* [ok, location, unit, error]
BindWeatherArgs(j) ==
    IF j.kind # "object"
    THEN [ok |-> FALSE, location |-> "", unit |-> "",
          error |-> "get_weather() argument after ** must be a mapping, not list"]
    ELSE IF ~(DOMAIN j.members \subseteq {"location", "unit"})
    THEN [ok |-> FALSE, location |-> "", unit |-> "",
          error |-> "get_weather() got an unexpected keyword argument"]
    ELSE IF "location" \notin DOMAIN j.members
    THEN [ok |-> FALSE, location |-> "", unit |-> "",
          error |-> "get_weather() missing 1 required positional argument: 'location'"]
    ELSE [ok |-> TRUE, location |-> j.members["location"].s,
          unit |-> IF "unit" \in DOMAIN j.members THEN j.members["unit"].s ELSE "celsius",
          error |-> ""]

(***************************************************************************)
(* response_id = "resp_" + uuid4().hex[:12]                                *)
(***************************************************************************)
HexDigits == "0123456789abcdef"

HexChar(n) == SubSeq(HexDigits, n + 1, n + 1)

RECURSIVE HexOf(_)
\* uuid.hex of a UUID given as its 32 four-bit groups.
HexOf(nibbles) ==
    IF nibbles = <<>> THEN ""
    ELSE HexChar(Head(nibbles)) \o HexOf(Tail(nibbles))

\* The UUIDs uuid4() draws from in this model.
UUIDs == {[i \in 1..32 |-> (i * k + 3) % 16] : k \in {5, 11}}

\* The slice taken one character too long.
MakeResponseIdLong(u) == "resp_" \o SubSeq(HexOf(u), 1, 13)

MakeResponseId(u) == "resp_" \o SubSeq(HexOf(u), 1, 12)

(***************************************************************************)
(* evaluate_with_llm: one judge call and the parsing of its reply.         *)
(***************************************************************************)
Criteria == <<"relevance", "coherence", "groundedness", "helpfulness">>

RECURSIVE Strip(_)
\* str.strip() for blanks.
Strip(s) ==
    IF Len(s) > 0 /\ SubSeq(s, 1, 1) = " " THEN Strip(SubSeq(s, 2, Len(s)))
    ELSE IF Len(s) > 0 /\ SubSeq(s, Len(s), Len(s)) = " " THEN Strip(SubSeq(s, 1, Len(s) - 1))
    ELSE s

\* The rubric prompt of a criterion: the texts its template interpolates.
Prompt(criterion, user_query, response_text, context) ==
    [criterion |-> criterion,
     user_query |-> IF criterion \in {"relevance", "helpfulness"} THEN user_query ELSE "",
     response_text |-> response_text,
     context |-> IF criterion = "groundedness" THEN context ELSE ""]

\* The fallback with the lowest score in place of the neutral one.
FallbackZero(error) ==
    [score |-> Float(0), reasoning |-> "Evaluation failed: " \o error]

\* The except branch of evaluate_with_llm.
Fallback(error) ==
    [score |-> Float(50), reasoning |-> "Evaluation failed: " \o error]

\* The score left as the judge gave it.
ClampNone(score) == score

\* score = max(0.0, min(1.0, score))
Clamp(score) == PyMax(Float(0), PyMin(Float(100), score))

\* The outcome of a chat call: it raises, or returns a reply with a content.
Raised(e) == [raises |-> TRUE, error |-> e, content |-> None]

Returned(c) == [raises |-> FALSE, error |-> "", content |-> c]

\* The (score, reasoning) evaluate_with_llm returns for an outcome of its call.
evaluate_with_llm(outcome) ==
    IF outcome.raises THEN Fallback(outcome.error)
    ELSE IF outcome.content = None
    THEN Fallback("'NoneType' object has no attribute 'strip'")
    ELSE LET result == JsonLoads(Strip(outcome.content[1]))
             score == PyFloat(DictGet(result, "score", JNum(0)))
             reasoning == DictGet(result, "reasoning", JStr("No reasoning provided"))
         IN  IF result.kind = "invalid" THEN Fallback(JsonErrorMessage)
             ELSE IF result.kind # "object"
             THEN Fallback("'list' object has no attribute 'get'")
             ELSE IF ~score.ok THEN Fallback(score.error)
             ELSE [score |-> Clamp(score.value), reasoning |-> reasoning.s]

\* Every outcome of a judge call the model draws from.
JudgeOutcomes ==
    {Raised("Connection error.")} \cup
    {Returned(c) : c \in {None, Some(JudgeGood), Some("  " \o JudgeGood \o " "),
                            Some(JudgeAbove), Some(JudgeBelow), Some(JudgeNoScore),
                            Some(JudgeNoReasoning), Some(JudgeStringScore),
                            Some(JudgeWordScore), Some(JudgeNullScore),
                            Some(JudgeNaNScore), Some(JudgeArray), Some(JudgeProse)}}

\* The outcomes drawn inside a whole request.
RequestJudgeOutcomes ==
    {Raised("Connection error."), Returned(None), Returned(Some(JudgeGood)),
     Returned(Some(JudgeAbove)), Returned(Some(JudgeProse))}

(***************************************************************************)
(* The request, the chat history and the replies of the chat endpoint.     *)
(***************************************************************************)
DefaultMessage == "What is the weather in Dubai?"

SystemPrompt ==
    "You are a helpful weather assistant. Use the get_weather function to fetch weather information."

AskedMessage == "Weather in Paris in fahrenheit?"

\* POST with a JSON object, a JSON array or an unparsable body; GET.
Requests ==
    {[method |-> "POST", body |-> b, message |-> m] :
        b \in {"object"}, m \in {None, Some(AskedMessage)}} \cup
    {[method |-> "POST", body |-> b, message |-> None] : b \in {"array", "unparsable"}} \cup
    {[method |-> "GET", body |-> "none", message |-> m] : m \in {None, Some(AskedMessage)}}

Msg(role, content, tool_call_id, name, calls) ==
    [role |-> role, content |-> content, tool_call_id |-> tool_call_id,
     name |-> name, tool_calls |-> calls]

\* The (function name, arguments text) pairs a tool-call request carries.
ToolRequests ==
    {<<"get_weather", ArgsParisF>>, <<"get_weather", ArgsDubai>>,
     <<"get_weather", ArgsNoLocation>>, <<"get_weather", ArgsTruncated>>,
     <<"get_time", ArgsTimezone>>, <<"get_time", ArgsEmpty>>}

\* The tool-call lists of a reply: ids are unique per position.
ToolCallLists ==
    UNION {{[i \in 1..n |-> [id |-> "call_" \o ToString(i), name |-> f[i][1], arguments |-> f[i][2]]] :
              f \in [1..n -> ToolRequests]} : n \in 1..MaxToolCalls}

AnswerText == "It is sunny."

\* Replies to the first chat call: an answer (tool_calls is None or empty,
\* both falsy) or a list of tool-call requests.
FirstReplies ==
    {Msg("assistant", c, "", "", <<>>) : c \in {None, Some(AnswerText)}} \cup
    {Msg("assistant", None, "", "", calls) : calls \in ToolCallLists}

\* Reply contents of the second chat call.
SecondContents == {None, Some(""), Some(AnswerText)}

ChatCall(kind, msgs, tools, prompt) ==
    [kind |-> kind, messages |-> msgs, tools |-> tools, prompt |-> prompt]

NoPrompt == Prompt("", "", "", "")

(***************************************************************************)
(* weather_chat                                                            *)
(***************************************************************************)
NoResponse == [status |-> 0, body |-> [pending |-> TRUE]]

\* The error envelope sent with the default status code.
ErrorResponseOk(error) == [status |-> 200, body |-> [error |-> error]]

\* The except branch of weather_chat.
ErrorResponse(error) == [status |-> 500, body |-> [error |-> error]]

\* The success envelope of weather_chat.
SuccessResponse(text, message, id) ==
    [status |-> 200,
     body |-> [response |-> text, user_message |-> message, response_id |-> id]]

Init ==
    /\ pc = "start"
    /\ req \in Requests
    /\ response_id = ""
    /\ user_message = None
    /\ client = None
    /\ deployment_name = None
    /\ messages = <<>>
    /\ response_message = None
    /\ tool_calls = <<>>
    /\ tool_idx = 0
    /\ weather_context = ""
    /\ final_message = None
    /\ eval_idx = 0
    /\ eval_results = <<>>
    /\ chat_log = <<>>
    /\ in_flight = 0
    /\ weather_calls = <<>>
    /\ call_results = <<>>
    /\ http = NoResponse

\* An exception reaches the except branch of weather_chat.
Raise(error) ==
    /\ http' = ErrorResponse(error)
    /\ pc' = "done"

\* line 254
GenerateResponseId ==
    /\ pc = "start"
    /\ \E u \in UUIDs : response_id' = MakeResponseId(u)
    /\ pc' = "extract"
    /\ UNCHANGED <<req, call_results, user_message, client, deployment_name, messages,
                   response_message, tool_calls, tool_idx, weather_context,
                   final_message, eval_idx, eval_results, chat_log, in_flight,
                   weather_calls, http>>

\* dict.get('message', default) on the body or the query parameters.
GetMessage(r) == IF r.message = None THEN DefaultMessage ELSE r.message[1]

\* lines 257-261
ExtractMessage ==
    /\ pc = "extract"
    /\ IF req.method = "POST" /\ req.body = "unparsable"
       THEN /\ Raise("HTTP request does not contain valid JSON data")
            /\ UNCHANGED user_message
       ELSE IF req.method = "POST" /\ req.body = "array"
       THEN /\ Raise("'list' object has no attribute 'get'")
            /\ UNCHANGED user_message
       ELSE /\ user_message' = Some(GetMessage(req))
            /\ pc' = "client"
            /\ UNCHANGED http
    /\ UNCHANGED <<req, call_results, response_id, client, deployment_name, messages,
                   response_message, tool_calls, tool_idx, weather_context,
                   final_message, eval_idx, eval_results, chat_log, in_flight,
                   weather_calls>>

\* lines 269-275
CreateClient ==
    /\ pc = "client"
    /\ client' = Some("AzureOpenAI")
    /\ deployment_name' = Some("gpt-4")
    /\ pc' = "first_call"
    /\ UNCHANGED <<req, call_results, response_id, user_message, messages,
                   response_message, tool_calls, tool_idx, weather_context,
                   final_message, eval_idx, eval_results, chat_log, in_flight,
                   weather_calls, http>>

\* The initial history, lines 284-287.
InitialMessages(message) ==
    <<Msg("system", Some(SystemPrompt), "", "", <<>>),
      Msg("user", Some(message), "", "", <<>>)>>

\* lines 284-294: the first chat call is sent, with the tool schema.
IssueFirstCall ==
    /\ pc = "first_call"
    /\ messages' = InitialMessages(user_message[1])
    /\ chat_log' = Append(chat_log, ChatCall("first", messages', TRUE, NoPrompt))
    /\ in_flight' = in_flight + 1
    /\ pc' = "first_wait"
    /\ UNCHANGED <<req, call_results, response_id, user_message, client, deployment_name,
                   response_message, tool_calls, tool_idx, weather_context,
                   final_message, eval_idx, eval_results, weather_calls, http>>

\* A test that an empty list passes too.
HasToolCallsAlways(calls) == Len(calls) >= 0

\* `if tool_calls:` at line 312
HasToolCalls(calls) == Len(calls) > 0

\* lines 296-314 and 361: the first reply arrives.
FirstCallReturns ==
    /\ pc = "first_wait"
    /\ \E reply \in FirstReplies :
         /\ response_message' = Some(reply)
         /\ call_results' = Append(call_results, Returned(reply.content))
         /\ tool_calls' = reply.tool_calls
         /\ weather_context' = ""
         /\ IF HasToolCalls(reply.tool_calls)
            THEN /\ messages' = Append(messages, reply)
                 /\ tool_idx' = 1
                 /\ pc' = "tool_loop"
                 /\ UNCHANGED final_message
            ELSE /\ final_message' = Some(OrEmpty(reply.content))
                 /\ pc' = "post"
                 /\ UNCHANGED <<messages, tool_idx>>
    /\ in_flight' = in_flight - 1
    /\ UNCHANGED <<req, response_id, user_message, client, deployment_name,
                   eval_idx, eval_results, chat_log, weather_calls, http>>

\* The first chat call raises.
FirstCallRaises ==
    /\ pc = "first_wait"
    /\ in_flight' = in_flight - 1
    /\ call_results' = Append(call_results, Raised("Connection error."))
    /\ Raise("Connection error.")
    /\ UNCHANGED <<req, response_id, user_message, client, deployment_name,
                   messages, response_message, tool_calls, tool_idx,
                   weather_context, final_message, eval_idx, eval_results,
                   chat_log, weather_calls>>

\* The tool-role message of lines 328-333.
ToolMessage(call, content) ==
    Msg("tool", Some(content), call.id, call.name, <<>>)

\* lines 317-333: one iteration of `for tool_call in tool_calls`.
ExecToolCall ==
    /\ pc = "tool_loop"
    /\ tool_idx <= Len(tool_calls)
    /\ LET tool_call == tool_calls[tool_idx]
           function_name == tool_call.name
           function_args == JsonLoads(tool_call.arguments)
           bound == BindWeatherArgs(function_args)
           function_response == get_weather(bound.location, bound.unit)
       IN  IF function_args.kind = "invalid"
           THEN /\ Raise(JsonErrorMessage)
                /\ UNCHANGED <<messages, tool_idx, weather_context, weather_calls>>
           ELSE IF function_name = "get_weather"
           THEN IF ~bound.ok
                THEN /\ Raise(bound.error)
                     /\ UNCHANGED <<messages, tool_idx, weather_context, weather_calls>>
                ELSE /\ weather_calls' = Append(weather_calls, <<bound.location, bound.unit>>)
                     /\ weather_context' = JsonDumpsWeather(function_response)
                     /\ messages' = Append(messages, ToolMessage(tool_call, weather_context'))
                     /\ tool_idx' = tool_idx + 1
                     /\ UNCHANGED <<pc, http>>
           ELSE /\ tool_idx' = tool_idx + 1
                /\ UNCHANGED <<pc, http, messages, weather_context, weather_calls>>
    /\ UNCHANGED <<req, call_results, response_id, user_message, client, deployment_name,
                   response_message, tool_calls, final_message, eval_idx,
                   eval_results, chat_log, in_flight>>

\* The loop of line 316 has visited every tool-call request.
ToolLoopDone == tool_idx > Len(tool_calls)

\* lines 336-344: the second chat call is sent, without the tool schema.
IssueSecondCall ==
    /\ pc = "tool_loop"
    /\ ToolLoopDone
    /\ chat_log' = Append(chat_log, ChatCall("second", messages, FALSE, NoPrompt))
    /\ in_flight' = in_flight + 1
    /\ pc' = "second_wait"
    /\ UNCHANGED <<req, call_results, response_id, user_message, client, deployment_name,
                   messages, response_message, tool_calls, tool_idx,
                   weather_context, final_message, eval_idx, eval_results,
                   weather_calls, http>>

\* len(x) of an Optional[str] raises on None.
LenRaises(o) == o = None

LenErrorMessage == "object of type 'NoneType' has no len()"

\* lines 346-358: the second reply arrives.
SecondCallReturns ==
    /\ pc = "second_wait"
    /\ in_flight' = in_flight - 1
    /\ \E content \in SecondContents :
         /\ final_message' = content
         /\ call_results' = Append(call_results, Returned(content))
         /\ IF LenRaises(content)
            THEN Raise(LenErrorMessage)
            ELSE pc' = "post" /\ UNCHANGED http
    /\ UNCHANGED <<req, response_id, user_message, client, deployment_name,
                   messages, response_message, tool_calls, tool_idx,
                   weather_context, eval_idx, eval_results, chat_log,
                   weather_calls>>

\* The second chat call raises.
SecondCallRaises ==
    /\ pc = "second_wait"
    /\ in_flight' = in_flight - 1
    /\ call_results' = Append(call_results, Raised("Connection error."))
    /\ Raise("Connection error.")
    /\ UNCHANGED <<req, response_id, user_message, client, deployment_name,
                   messages, response_message, tool_calls, tool_idx,
                   weather_context, final_message, eval_idx, eval_results,
                   chat_log, weather_calls>>

\* `if final_message:` at line 367
ShouldEvaluate(text) == Truthy(text)

\* lines 363-367
PostProcess ==
    /\ pc = "post"
    /\ IF LenRaises(final_message)
       THEN Raise(LenErrorMessage)
       ELSE /\ pc' = IF ShouldEvaluate(final_message) THEN "evaluate_response" ELSE "evaluated"
            /\ UNCHANGED http
    /\ UNCHANGED <<req, call_results, response_id, user_message, client, deployment_name,
                   messages, response_message, tool_calls, tool_idx,
                   weather_context, final_message, eval_idx, eval_results,
                   chat_log, in_flight, weather_calls>>

(***************************************************************************)
(* evaluate_response                                                       *)
(***************************************************************************)
\* The guard of line 167.
SkipEvaluations(c, d) == c = None \/ d = None

\* lines 167-169
EvaluateResponseEntry ==
    /\ pc = "evaluate_response"
    /\ IF SkipEvaluations(client, deployment_name)
       THEN pc' = "evaluated" /\ UNCHANGED eval_idx
       ELSE pc' = "judge" /\ eval_idx' = 1
    /\ UNCHANGED <<req, call_results, response_id, user_message, client, deployment_name,
                   messages, response_message, tool_calls, tool_idx,
                   weather_context, final_message, eval_results, chat_log,
                   in_flight, weather_calls, http>>

\* lines 124-132: the judge call of the next criterion is sent.
IssueJudgeCall ==
    /\ pc = "judge"
    /\ chat_log' = Append(chat_log,
          ChatCall("judge", <<>>, FALSE,
                   Prompt(Criteria[eval_idx], user_message[1], final_message[1], weather_context)))
    /\ in_flight' = in_flight + 1
    /\ pc' = "judge_wait"
    /\ UNCHANGED <<req, call_results, response_id, user_message, client, deployment_name,
                   messages, response_message, tool_calls, tool_idx,
                   weather_context, final_message, eval_idx, eval_results,
                   weather_calls, http>>

\* The span log_evaluation records.
log_evaluation(criterion, result) ==
    [criterion |-> criterion, score |-> result.score, reasoning |-> result.reasoning]

\* evaluate_response without its last criterion.
AfterEvaluationShort(i) == IF i = Len(Criteria) - 1 THEN "evaluated" ELSE "judge"

\* Where evaluate_response goes after logging the evaluation of criterion i.
AfterEvaluation(i) == IF i = Len(Criteria) THEN "evaluated" ELSE "judge"

\* evaluate_with_llm without its try/except: a raising judge call reaches
\* the except branch of weather_chat.
JudgeReturnsUncaught(outcomes) ==
    /\ pc = "judge_wait"
    /\ in_flight' = in_flight - 1
    /\ \E outcome \in outcomes :
         /\ call_results' = Append(call_results, outcome)
         /\ IF outcome.raises
            THEN /\ Raise(outcome.error)
                 /\ UNCHANGED <<eval_results, eval_idx>>
            ELSE /\ eval_results' = Append(eval_results,
                                           log_evaluation(Criteria[eval_idx], evaluate_with_llm(outcome)))
                 /\ eval_idx' = eval_idx + 1
                 /\ pc' = AfterEvaluation(eval_idx)
                 /\ UNCHANGED http
    /\ UNCHANGED <<req, response_id, user_message, client, deployment_name,
                   messages, response_message, tool_calls, tool_idx,
                   weather_context, final_message, chat_log, weather_calls>>

\* lines 134-159 and log_evaluation: the judge call ends, its result is logged.
JudgeReturns(outcomes) ==
    /\ pc = "judge_wait"
    /\ in_flight' = in_flight - 1
    /\ \E outcome \in outcomes :
         /\ call_results' = Append(call_results, outcome)
         /\ eval_results' = Append(eval_results,
                                   log_evaluation(Criteria[eval_idx], evaluate_with_llm(outcome)))
    /\ eval_idx' = eval_idx + 1
    /\ pc' = AfterEvaluation(eval_idx)
    /\ UNCHANGED <<req, response_id, user_message, client, deployment_name,
                   messages, response_message, tool_calls, tool_idx,
                   weather_context, final_message, chat_log, weather_calls, http>>

JudgeReturnsInRequest == JudgeReturns(RequestJudgeOutcomes)

JudgeReturnsDirect == JudgeReturns(JudgeOutcomes)

\* lines 377-385
Respond ==
    /\ pc = "evaluated"
    /\ http' = SuccessResponse(final_message[1], user_message[1], response_id)
    /\ pc' = "done"
    /\ UNCHANGED <<req, call_results, response_id, user_message, client, deployment_name,
                   messages, response_message, tool_calls, tool_idx,
                   weather_context, final_message, eval_idx, eval_results,
                   chat_log, in_flight, weather_calls>>

Next ==
    \/ GenerateResponseId
    \/ ExtractMessage
    \/ CreateClient
    \/ IssueFirstCall
    \/ FirstCallReturns
    \/ FirstCallRaises
    \/ ExecToolCall
    \/ IssueSecondCall
    \/ SecondCallReturns
    \/ SecondCallRaises
    \/ PostProcess
    \/ EvaluateResponseEntry
    \/ IssueJudgeCall
    \/ JudgeReturnsInRequest
    \/ Respond

\* One request handled by weather_chat.
Spec == Init /\ [][Next]_vars

(***************************************************************************)
(* evaluate_response called on its own, with the arguments its signature   *)
(* admits: client and deployment_name default to None.                     *)
(***************************************************************************)
InitEval ==
    /\ pc = "evaluate_response"
    /\ req = [method |-> "GET", body |-> "none", message |-> None]
    /\ response_id \in {MakeResponseId(u) : u \in UUIDs}
    /\ user_message = Some(DefaultMessage)
    /\ client \in {None, Some("AzureOpenAI")}
    /\ deployment_name \in {None, Some("gpt-4")}
    /\ messages = <<>>
    /\ response_message = None
    /\ tool_calls = <<>>
    /\ tool_idx = 0
    /\ weather_context \in {"", JsonDumpsWeather(get_weather("Paris", "fahrenheit"))}
    /\ final_message = Some(AnswerText)
    /\ eval_idx = 0
    /\ eval_results = <<>>
    /\ chat_log = <<>>
    /\ in_flight = 0
    /\ weather_calls = <<>>
    /\ call_results = <<>>
    /\ http = NoResponse

NextEval ==
    \/ EvaluateResponseEntry
    \/ IssueJudgeCall
    \/ JudgeReturnsDirect

SpecEval == InitEval /\ [][NextEval]_vars

(***************************************************************************)
(* Properties.                                                             *)
(***************************************************************************)
\* The positions in chat_log of the chat calls of one kind.
CallsOfKind(kind) == {i \in 1..Len(chat_log) : chat_log[i].kind = kind}

StartsWith(s, prefix) ==
    Len(s) >= Len(prefix) /\ SubSeq(s, 1, Len(prefix)) = prefix

InUnitInterval(score) == ~score.nan /\ score.v >= 0 /\ score.v <= 100

\* The message the request carries, or the documented default.
RequestedMessage ==
    IF req.message = None THEN "What is the weather in Dubai?" ELSE req.message[1]

\* C1: when the first chat reply carries no tool-call request, get_weather
\* is never invoked, no second chat call is ever issued, no tool message is
\* added, and the grounding context, also the one interpolated in the
\* groundedness prompt, is the empty string.
C1_NoToolCallNoSecondCall ==
    (response_message # None /\ Len(response_message[1].tool_calls) = 0) =>
        /\ weather_calls = <<>>
        /\ CallsOfKind("second") = {}
        /\ weather_context = ""
        /\ \A i \in 1..Len(messages) : messages[i].role # "tool"
        /\ \A i \in CallsOfKind("judge") : chat_log[i].prompt.context = ""

\* A request answered without tool call, judged on all four criteria.
C1_Witness ==
    /\ pc = "done"
    /\ response_message # None
    /\ Len(response_message[1].tool_calls) = 0
    /\ http.status = 200
    /\ Len(eval_results) = 4
    /\ Cardinality(CallsOfKind("judge")) = 4

\* The JSON text of the weather record of an arguments text.
ExpectedRecordText(arguments) ==
    CASE arguments = ArgsParisF ->
           "{\"location\": \"Paris\", \"temperature\": 72, \"unit\": \"fahrenheit\", \"condition\": \"Sunny\", \"humidity\": 65, \"wind_speed\": 10}"
      [] arguments = ArgsDubai ->
           "{\"location\": \"Dubai\", \"temperature\": 22, \"unit\": \"celsius\", \"condition\": \"Sunny\", \"humidity\": 65, \"wind_speed\": 10}"
      [] OTHER -> "no record"

RECURSIVE ExpectedToolMessages(_)
\* One tool message per get_weather request, in the order of the requests.
ExpectedToolMessages(calls) ==
    IF calls = <<>> THEN <<>>
    ELSE (IF Head(calls).name = "get_weather"
          THEN <<[role |-> "tool", content |-> <<ExpectedRecordText(Head(calls).arguments)>>,
                  tool_call_id |-> Head(calls).id, name |-> "get_weather",
                  tool_calls |-> <<>>]>>
          ELSE <<>>) \o ExpectedToolMessages(Tail(calls))

\* C2: the history sent on the second chat call is the system message, the
\* user message, the assistant reply with its tool calls, then one tool
\* message per get_weather request in the order of the requests, each with
\* the request's id and the JSON text of the record of its arguments, and
\* nothing else.
C2_SecondCallHistory ==
    \A i \in CallsOfKind("second") :
        /\ ~chat_log[i].tools
        /\ chat_log[i].messages =
             <<[role |-> "system", content |-> <<SystemPrompt>>, tool_call_id |-> "",
                name |-> "", tool_calls |-> <<>>],
               [role |-> "user", content |-> <<RequestedMessage>>, tool_call_id |-> "",
                name |-> "", tool_calls |-> <<>>],
               response_message[1]>>
             \o ExpectedToolMessages(response_message[1].tool_calls)

\* The second call is sent after get_weather ran for Paris in fahrenheit and
\* then for Dubai.
C2_Witness ==
    /\ CallsOfKind("second") # {}
    /\ Len(tool_calls) = 2
    /\ tool_calls[1].name = "get_weather" /\ tool_calls[1].arguments = ArgsParisF
    /\ tool_calls[2].name = "get_weather" /\ tool_calls[2].arguments = ArgsDubai
    /\ Len(messages) = 5

\* Four results, one per criterion in the fixed order, each score in [0, 1].
FourResults ==
    /\ Len(eval_results) = 4
    /\ \A i \in 1..4 :
         /\ eval_results[i].criterion = Criteria[i]
         /\ InUnitInterval(eval_results[i].score)

JudgeFailed(outcome) ==
    \/ outcome.raises
    \/ outcome.content = None
    \/ outcome.content[1] \in {JudgeProse, JudgeArray, JudgeWordScore, JudgeNullScore}

\* C4: a judge call that raises, or whose reply is null, not JSON, not an
\* object or without a numeric score, gives score 0.5 and a reasoning that
\* starts with "Evaluation failed:"; every judge call that ended has its
\* result recorded and none ends the evaluation with an error.
C4_FailedJudgeIsNeutral ==
    /\ Len(eval_results) = Len(call_results)
    /\ http.status = 0
    /\ \A i \in 1..Len(eval_results) :
         JudgeFailed(call_results[i]) =>
            /\ eval_results[i].score = [nan |-> FALSE, v |-> 50]
            /\ StartsWith(eval_results[i].reasoning, "Evaluation failed:")

\* Four failed judge calls of four kinds, all recorded.
C4_Witness ==
    /\ pc = "evaluated"
    /\ Len(eval_results) = 4
    /\ call_results[1].raises
    /\ call_results[2] = Returned(None)
    /\ call_results[3] = Returned(<<JudgeArray>>)
    /\ call_results[4] = Returned(<<JudgeNullScore>>)

\* A tool-call request the loop of weather_chat cannot get past.
FailingToolCall(call) ==
    \/ call.arguments \in {ArgsTruncated, ArgsEmpty}
    \/ call.name = "get_weather" /\ call.arguments \notin {ArgsParisF, ArgsDubai}

\* The request, a reply or a tool-call request makes weather_chat raise.
OrchestrationFailed ==
    \/ req.method = "POST" /\ req.body \in {"unparsable", "array"}
    \/ \E i \in 1..Len(call_results) :
         chat_log[i].kind \in {"first", "second"} /\ call_results[i].raises
    \/ /\ response_message # None
       /\ \E i \in 1..Len(response_message[1].tool_calls) :
            FailingToolCall(response_message[1].tool_calls[i])
    \/ /\ Len(call_results) >= 2
       /\ chat_log[2].kind = "second"
       /\ call_results[2] = Returned(None)

\* C5: a request that fails while the message is extracted, during the chat
\* orchestration or after it ends with status 500 and a body holding the
\* error message and nothing else; a request ends with 200 or 500, and with
\* 200 only when nothing failed.
C5_FailureGives500 ==
    /\ http.status \in {0, 200, 500}
    /\ (pc = "done") <=> (http.status # 0)
    /\ http.status = 500 => DOMAIN http.body = {"error"} /\ http.body.error # ""
    /\ (pc = "done" /\ OrchestrationFailed) => http.status = 500

\* A request that fails at its second tool call, after get_weather ran once.
C5_Witness ==
    /\ pc = "done"
    /\ http.status = 500
    /\ Len(weather_calls) = 1
    /\ tool_idx = 2
    /\ Len(messages) = 4

\* The final text as the replies of the orchestration calls determine it.
ExpectedFinalText ==
    IF Len(chat_log) >= 2 /\ chat_log[2].kind = "second"
    THEN call_results[2].content[1]
    ELSE IF call_results[1].content = None THEN "" ELSE call_results[1].content[1]

\* C6: once judging has begun, the request ends with status 200 and the
\* response and user_message that the request and the orchestration replies
\* determine, whatever the outcomes of the judge calls; all four criteria
\* are judged even when a judge call fails.
C6_JudgeOutcomesInvisible ==
    /\ CallsOfKind("judge") # {} => http.status \in {0, 200}
    /\ (pc = "done" /\ CallsOfKind("judge") # {}) =>
          /\ http = [status |-> 200,
                     body |-> [response |-> ExpectedFinalText,
                               user_message |-> RequestedMessage,
                               response_id |-> response_id]]
          /\ Cardinality(CallsOfKind("judge")) = 4
          /\ Len(eval_results) = 4

\* A request whose first judge call raises and whose second returns no
\* JSON, while the last two are judged normally.
C6_Witness ==
    /\ pc = "done"
    /\ http.status = 200
    /\ Len(eval_results) = 4
    /\ call_results[Len(call_results) - 3].raises
    /\ call_results[Len(call_results) - 2] = Returned(<<JudgeProse>>)
    /\ call_results[Len(call_results) - 1] = Returned(<<JudgeGood>>)
    /\ call_results[Len(call_results)] = Returned(<<JudgeGood>>)

LowerHex == {"0", "1", "2", "3", "4", "5", "6", "7", "8", "9", "a", "b", "c", "d", "e", "f"}

\* "resp_" followed by 12 lowercase hexadecimal characters.
WellFormedId(id) ==
    /\ Len(id) = 17
    /\ SubSeq(id, 1, 5) = "resp_"
    /\ \A i \in 6..17 : SubSeq(id, i, i) \in LowerHex

\* What C7 says of every state.
C7_State ==
    /\ (user_message # None /\ req.message = None) =>
          user_message[1] = "What is the weather in Dubai?"
    /\ response_id # "" => WellFormedId(response_id)
    /\ \A i \in CallsOfKind("first") :
          /\ chat_log[i].messages[2].role = "user"
          /\ chat_log[i].messages[2].content = <<RequestedMessage>>
    /\ http.status = 200 =>
          /\ http.body.user_message = chat_log[1].messages[2].content[1]
          /\ http.body.response_id = response_id

\* C7: a request without message is handled with the default message; the
\* user_message of a success envelope is the user message sent to the chat
\* endpoint; response_id is "resp_" and 12 lowercase hexadecimal characters,
\* set once per request and never changed.
C7_DefaultMessageAndResponseId ==
    /\ []C7_State
    /\ [][response_id # "" => response_id' = response_id]_vars

\* A POST without message answered with status 200.
C7_Witness ==
    /\ pc = "done"
    /\ http.status = 200
    /\ req.method = "POST"
    /\ req.message = None
    /\ http.body.user_message = "What is the weather in Dubai?"

\* C8: on the tool-call path, a second reply whose content is null ends the
\* request with status 200, response "" and no evaluation.
C8_NullSecondContentIsEmptyText ==
    (/\ pc = "done"
     /\ Len(call_results) >= 2
     /\ chat_log[2].kind = "second"
     /\ call_results[2] = Returned(None)) =>
        /\ http.status = 200
        /\ http.body.response = ""
        /\ eval_results = <<>>

\* C9: the tool loop never ends a request at a tool-call request whose
\* function name is not get_weather, whatever its arguments text: such a
\* request raises no error.
C9_UnknownToolNeverFails ==
    (/\ pc = "done"
     /\ response_message # None
     /\ CallsOfKind("second") = {}
     /\ tool_idx \in 1..Len(tool_calls)
     /\ tool_calls[tool_idx].name # "get_weather") =>
        http.status # 500

\* C10 as stated: a handled request has issued between two and four chat
\* calls.
C10_TwoToFourCalls ==
    pc = "done" => (Len(chat_log) >= 2 /\ Len(chat_log) <= 4)

\* C10 amended: a request issues at most two orchestration calls and then
\* either no judge call or exactly four, so 0, 1, 2, 5 or 6 chat calls in
\* all, one at a time: the second orchestration call is sent after the first
\* has returned and the tool loop has visited every request, and a judge
\* call is sent after every earlier call has ended and the final text is set.
C10_CallsOneAfterAnother ==
    /\ in_flight \in {0, 1}
    /\ Len(chat_log) = Len(call_results) + in_flight
    /\ Cardinality(CallsOfKind("first")) <= 1
    /\ \A i \in CallsOfKind("first") : i = 1
    /\ \A i \in CallsOfKind("second") :
          /\ i = 2
          /\ ~call_results[1].raises
          /\ tool_idx = Len(tool_calls) + 1
    /\ \A i \in CallsOfKind("judge") :
          /\ i > 1
          /\ \A j \in 1..(i - 1) : ~call_results[j].raises \/ chat_log[j].kind = "judge"
          /\ final_message # None
          /\ chat_log[i].prompt.response_text = final_message[1]
    /\ pc = "done" =>
          /\ Cardinality(CallsOfKind("judge")) \in {0, 4}
          /\ Len(chat_log) \in {0, 1, 2, 5, 6}

\* A request with two tool calls that issued six chat calls.
C10_Witness ==
    /\ pc = "done"
    /\ Len(chat_log) = 6
    /\ Len(tool_calls) = 2
    /\ Len(weather_calls) = 2

====
